---- MODULE Spec2Model ----
(***************************************************************************)
(* Model of the download race: Retryer::retry (src/src/retry.rs),          *)
(* SolutionFuture and Solution0::solve (src/src/solution.rs), driven by   *)
(* repositories shaped like the tests' MockRepo.                           *)
(*                                                                         *)
(* Spec       one call of Solution0::solve: the orchestrator builds one    *)
(*            retry-wrapped download per repository and awaits the race.   *)
(* SpecRetry  one call of Retryer::retry awaited on its own, for every     *)
(*            retry count up to MaxRetry.                                  *)
(***************************************************************************)
EXTENDS Integers, Sequences, FiniteSets, TLC

\* ---------------------------------------------------------------- bounds
MaxRepos == 3      \* longest repository collection handed to solve
MaxRetry == 3      \* largest retry count of a Retryer awaited on its own

\* ------------------------------------------------------ program constants
RetryCount == 3    \* Retryer::new(3) in Solution0::solve

VARIABLES
    repositories,     \* the sources: <<[tick_times, ok_from]>>, the value of source i is i
    retryer,          \* Retryer.0, the retry count
    futures,          \* per operation, the state of its retry future
    is_ready_future,  \* SolutionFuture.is_ready_future
    pending_count,    \* SolutionFuture.pending_count
    pc,               \* where the awaiting task stands
    poll_result,      \* what the last poll of the awaited future returned
    solve_result,     \* what solve returned
    polled,           \* the operations advanced by the last activation, in scan order
    finished          \* per operation, how often a poll of it returned Ready

vars == <<repositories, retryer, futures, is_ready_future, pending_count, pc,
          poll_result, solve_result, polled, finished>>

\* ---------------------------------------------------------------- values
\* Poll<Result<T, E>>: Pending, Ready(Ok(value)), Ready(Err(error)). A value or an
\* error is identified by the source it comes from and the attempt that produced it.
Pending == [tag |-> "Pending", value |-> 0, attempt |-> 0]

Ok(v, k) == [tag |-> "Ok", value |-> v, attempt |-> k]

Err(v, k) == [tag |-> "Err", value |-> v, attempt |-> k]

\* The poll of an async fn that already returned: "`async fn` resumed after completion".
Panic == [tag |-> "Panic", value |-> 0, attempt |-> 0]

\* Option<T>
None == [some |-> FALSE, value |-> 0]

Some(v) == [some |-> TRUE, value |-> v]

\* Mutant of ResultOk: the payload of an Err is handed on as a value.
ResultOkLeaky(r) == Some(r.value)

\* Result::ok
ResultOk(r) == IF r.tag = "Ok" THEN Some(r.value) ELSE None

\* A retry future that was never polled: no factory call yet.
NewFuture == [calls |-> 0, remaining |-> 0, done |-> FALSE]

Indices == 1..Len(repositories)

\* ------------------------------------------------------------- collaborator
\* The result of the k-th download of source i once its timer waits are over:
\* a source with ok_from = 0 fails every time, otherwise calls before ok_from fail.
Download(repo, i, k) ==
    IF repo.ok_from # 0 /\ k >= repo.ok_from THEN Ok(i, k) ELSE Err(i, k)

\* ------------------------------------------------------------------ Retryer
\* Mutant of RetryResume: the loop makes one attempt more (`0..=self.0`).
RECURSIVE RetryResumeExtra(_, _, _, _, _)
RetryResumeExtra(repo, i, n, calls, remaining) ==
    IF remaining > 0
    THEN [calls |-> calls, remaining |-> remaining, done |-> FALSE, res |-> Pending]
    ELSE LET result == Download(repo, i, calls)
         IN  IF calls <= n + 1
             THEN IF result.tag = "Ok"
                  THEN [calls |-> calls, remaining |-> 0, done |-> TRUE, res |-> result]
                  ELSE RetryResumeExtra(repo, i, n, calls + 1, repo.tick_times)
             ELSE [calls |-> calls, remaining |-> 0, done |-> TRUE, res |-> result]

\* Mutant of RetryResume: the loop does not return on success.
RECURSIVE RetryResumeNoReturn(_, _, _, _, _)
RetryResumeNoReturn(repo, i, n, calls, remaining) ==
    IF remaining > 0
    THEN [calls |-> calls, remaining |-> remaining, done |-> FALSE, res |-> Pending]
    ELSE LET result == Download(repo, i, calls)
         IN  IF calls <= n
             THEN RetryResumeNoReturn(repo, i, n, calls + 1, repo.tick_times)
             ELSE [calls |-> calls, remaining |-> 0, done |-> TRUE, res |-> result]

\* One poll of the future of Retryer::retry, resumed at the await of attempt `calls`.
\* Attempts 1..n are made in the for loop, attempt n + 1 is the trailing f().await.
RECURSIVE RetryResume(_, _, _, _, _)
RetryResume(repo, i, n, calls, remaining) ==
    IF remaining > 0
    THEN [calls |-> calls, remaining |-> remaining, done |-> FALSE, res |-> Pending]
    ELSE LET result == Download(repo, i, calls)
         IN  IF calls <= n
             THEN IF result.tag = "Ok"
                  THEN [calls |-> calls, remaining |-> 0, done |-> TRUE, res |-> result]
                  ELSE RetryResume(repo, i, n, calls + 1, repo.tick_times)
             ELSE [calls |-> calls, remaining |-> 0, done |-> TRUE, res |-> result]

\* Future::poll of a retry future in state f.
RetryPoll(repo, i, n, f) ==
    IF f.done
    THEN [calls |-> f.calls, remaining |-> 0, done |-> TRUE, res |-> Panic]
    ELSE IF f.calls = 0
         THEN RetryResume(repo, i, n, 1, repo.tick_times)
         ELSE RetryResume(repo, i, n, f.calls, f.remaining)

StripRes(p) == [calls |-> p.calls, remaining |-> p.remaining, done |-> p.done]

\* ----------------------------------------------------------- SolutionFuture
\* Mutant of Decrement: the counter is decremented twice for one operation.
DecrementTwice(n) == n - 2

\* Mutant of Decrement: the counter is not decremented.
DecrementNever(n) == n

\* `*pending_count -= 1` on a usize; -1 stands for the underflow.
Decrement(n) == n - 1

\* Mutant of Skip: the readiness flag is not looked at.
SkipNever(is_ready) == FALSE

\* `if *is_ready { continue; }`
Skip(is_ready) == is_ready

\* Mutant of IsOk: the condition is inverted, the scan returns on a failure.
IsOkInverted(result) == result.tag # "Ok"

\* Mutant of IsOk: no early return, a success is kept like a failure.
IsOkNever(result) == FALSE

\* Mutant of IsOk: every finished result is returned, a failure too.
IsOkAlways(result) == TRUE

\* `if result.is_ok() { return Poll::Ready(result); }`
IsOk(result) == result.tag = "Ok"

\* Mutant of Position: the scan runs from the last operation to the first.
PositionReversed(k, n) == n + 1 - k

\* The operation at position k of `futures.iter_mut().zip(is_ready_future.iter_mut())`
\* over n operations.
Position(k, n) == k

\* Mutant of AfterScan: a failure is returned without looking at pending_count.
AfterScanAnyError(count, last_error) ==
    IF last_error.some THEN last_error.value ELSE Pending

\* Mutant of AfterScan: a failure of its own instead of the recorded one.
AfterScanSentinel(count, last_error) ==
    IF count = 0 /\ last_error.some THEN Err(0, 0) ELSE Pending

\* What the activation returns after the scan.
AfterScan(count, last_error) ==
    IF count = 0 /\ last_error.some THEN last_error.value ELSE Pending

\* `let x = v; F(x)` with v evaluated once.
Bind(v, F(_)) == CHOOSE r \in {F(x) : x \in {v}} : TRUE

\* Mutant of ScanBody: a Pending operation ends the activation
\* (`Poll::Pending => return Poll::Pending`).
ScanBodyReturnsOnPending(j, s, p) ==
    Bind([s EXCEPT !.futures[j] = StripRes(p), !.polled = Append(@, j)], LAMBDA s1 :
        IF p.res = Pending
        THEN [s1 EXCEPT !.ret = Pending, !.stop = TRUE]
        ELSE IF p.res = Panic
        THEN [s1 EXCEPT !.ret = Panic, !.stop = TRUE]
        ELSE Bind([s1 EXCEPT !.is_ready[j] = TRUE,
                             !.count = Decrement(@),
                             !.finished[j] = @ + 1], LAMBDA s2 :
                 IF IsOk(p.res)
                 THEN [s2 EXCEPT !.ret = p.res, !.stop = TRUE]
                 ELSE [s2 EXCEPT !.last_error = [some |-> TRUE, value |-> p.res]]))

\* Mutant of ScanBody: the first failure of the activation is kept, later ones are
\* dropped (`last_error.get_or_insert(result)`).
ScanBodyFirstError(j, s, p) ==
    Bind([s EXCEPT !.futures[j] = StripRes(p), !.polled = Append(@, j)], LAMBDA s1 :
        IF p.res = Pending
        THEN s1
        ELSE IF p.res = Panic
        THEN [s1 EXCEPT !.ret = Panic, !.stop = TRUE]
        ELSE Bind([s1 EXCEPT !.is_ready[j] = TRUE,
                             !.count = Decrement(@),
                             !.finished[j] = @ + 1], LAMBDA s2 :
                 IF IsOk(p.res)
                 THEN [s2 EXCEPT !.ret = p.res, !.stop = TRUE]
                 ELSE IF s2.last_error.some
                 THEN s2
                 ELSE [s2 EXCEPT !.last_error = [some |-> TRUE, value |-> p.res]]))

\* Mutant of ScanBody: a failure is not recorded in last_error.
ScanBodyNoRecord(j, s, p) ==
    Bind([s EXCEPT !.futures[j] = StripRes(p), !.polled = Append(@, j)], LAMBDA s1 :
        IF p.res = Pending
        THEN s1
        ELSE IF p.res = Panic
        THEN [s1 EXCEPT !.ret = Panic, !.stop = TRUE]
        ELSE Bind([s1 EXCEPT !.is_ready[j] = TRUE,
                             !.count = Decrement(@),
                             !.finished[j] = @ + 1], LAMBDA s2 :
                 IF IsOk(p.res)
                 THEN [s2 EXCEPT !.ret = p.res, !.stop = TRUE]
                 ELSE s2))

\* The body of the for loop for the operation j, from the poll of its future on.
\* s carries what the loop updates: futures, is_ready, count (pending_count),
\* last_error (an Option), polled, finished, and ret, the value poll returns.
\* stop says that the loop was left by `return`.
ScanBody(j, s, p) ==
    Bind([s EXCEPT !.futures[j] = StripRes(p), !.polled = Append(@, j)], LAMBDA s1 :
        IF p.res = Pending
        THEN s1
        ELSE IF p.res = Panic
        THEN [s1 EXCEPT !.ret = Panic, !.stop = TRUE]
        ELSE Bind([s1 EXCEPT !.is_ready[j] = TRUE,
                             !.count = Decrement(@),
                             !.finished[j] = @ + 1], LAMBDA s2 :
                 IF IsOk(p.res)
                 THEN [s2 EXCEPT !.ret = p.res, !.stop = TRUE]
                 ELSE [s2 EXCEPT !.last_error = [some |-> TRUE, value |-> p.res]]))

\* The for loop of SolutionFuture::poll from position k on, and what follows it.
RECURSIVE Scan(_, _)
Scan(k, s0) ==
    Bind(s0, LAMBDA s :
        IF s.stop
        THEN s
        ELSE IF k > Len(s.futures)
        THEN [s EXCEPT !.ret = AfterScan(s.count, s.last_error)]
        ELSE Bind(Position(k, Len(s.futures)), LAMBDA j :
                 IF Skip(s.is_ready[j])
                 THEN Scan(k + 1, s)
                 ELSE Scan(k + 1, ScanBody(j, s, RetryPoll(repositories[j], j, retryer,
                                                          s.futures[j])))))

\* One activation of the combinator: last_error starts as None, the scan starts at
\* the first operation.
Activation ==
    Scan(1, [futures |-> futures, is_ready |-> is_ready_future, count |-> pending_count,
             last_error |-> None, polled |-> <<>>, finished |-> finished,
             ret |-> Pending, stop |-> FALSE])

\* Mutant of SolutionFutureNew: no assertion, an empty vector gives a combinator.
SolutionFutureNewNoAssert(n) ==
    [panic |-> FALSE, is_ready_future |-> [i \in 1..n |-> FALSE], pending_count |-> n]

\* SolutionFuture::new: the fields of the new combinator; the assertion fails on an
\* empty vector.
SolutionFutureNew(n) ==
    IF n = 0
    THEN [panic |-> TRUE, is_ready_future |-> <<>>, pending_count |-> 0]
    ELSE [panic |-> FALSE, is_ready_future |-> [i \in 1..n |-> FALSE], pending_count |-> n]

\* ------------------------------------------------------------------ sources
\* The timer waits of one download attempt: none (the attempt is over at its first
\* poll) or one (it is Pending until its timer fired). The combinator cannot tell a
\* longer wait from one wait: it sees Pending until the attempt is over.
TickTimes == {0, 1}

\* The call from which on the downloads of a raced source succeed: never (0, the
\* `failing` MockRepo), the first (the MockRepo that is not failing), or the second
\* (one failed attempt, then success, as a ServerName can behave).
OkFrom == {0, 1, 2}

Repos(okFrom) == [tick_times : TickTimes, ok_from : okFrom]

RECURSIVE SeqsUpTo(_, _)
SeqsUpTo(S, n) ==
    IF n = 0 THEN {<<>>}
    ELSE LET shorter == SeqsUpTo(S, n - 1)
         IN  shorter \cup {Append(q, x) : q \in {r \in shorter : Len(r) = n - 1}, x \in S}

\* Mutant of IsEmpty: the empty collection is not told apart.
IsEmptyNever(repos) == FALSE

\* `repositories.is_empty()`
IsEmpty(repos) == repos = <<>>

\* ------------------------------------------------------------------ actions
Init ==
    /\ repositories \in SeqsUpTo(Repos(OkFrom), MaxRepos)
    /\ retryer = 0
    /\ futures = <<>>
    /\ is_ready_future = <<>>
    /\ pending_count = 0
    /\ pc = "start"
    /\ poll_result = Pending
    /\ solve_result = None
    /\ polled = <<>>
    /\ finished = <<>>

\* Solution0::solve on an empty collection: None, at once.
SolveEmpty ==
    /\ pc = "start"
    /\ IsEmpty(repositories)
    /\ pc' = "done"
    /\ solve_result' = None
    /\ UNCHANGED <<repositories, retryer, futures, is_ready_future, pending_count,
                   poll_result, polled, finished>>

\* Solution0::solve up to the await: the retryer, one retry future per repository,
\* the combinator over them.
SolveStart ==
    /\ pc = "start"
    /\ ~IsEmpty(repositories)
    /\ LET new == SolutionFutureNew(Len(repositories))
       IN  /\ pc' = IF new.panic THEN "panicked" ELSE "awaiting"
           /\ is_ready_future' = new.is_ready_future
           /\ pending_count' = new.pending_count
    /\ retryer' = RetryCount
    /\ futures' = [i \in Indices |-> NewFuture]
    /\ finished' = [i \in Indices |-> 0]
    /\ UNCHANGED <<repositories, poll_result, solve_result, polled>>

\* SolutionFuture::poll, and what solve makes of a Ready: `future.await.ok()`.
Poll ==
    /\ pc = "awaiting"
    /\ \E a \in {Activation} :
           /\ futures' = a.futures
           /\ is_ready_future' = a.is_ready
           /\ pending_count' = a.count
           /\ polled' = a.polled
           /\ finished' = a.finished
           /\ poll_result' = a.ret
           /\ pc' = IF a.ret = Pending THEN "awaiting"
                    ELSE IF a.ret = Panic THEN "panicked" ELSE "done"
           /\ solve_result' = IF a.ret = Pending \/ a.ret = Panic THEN solve_result
                              ELSE ResultOk(a.ret)
    /\ UNCHANGED <<repositories, retryer>>

\* The timer of the attempt that operation i is waiting in fires.
Tick(i) ==
    /\ pc \in {"awaiting", "retrying"}
    /\ i \in DOMAIN futures
    /\ futures[i].calls > 0
    /\ ~futures[i].done
    /\ futures[i].remaining > 0
    /\ futures' = [futures EXCEPT ![i].remaining = @ - 1]
    /\ UNCHANGED <<repositories, retryer, is_ready_future, pending_count, pc,
                   poll_result, solve_result, polled, finished>>

Next ==
    \/ SolveEmpty
    \/ SolveStart
    \/ Poll
    \/ \E i \in Indices : Tick(i)

Spec == Init /\ [][Next]_vars

\* The executor runs the task that awaits solve, polls it again whenever an operation
\* woke it, and the runtime's timers fire.
FairSpec ==
    /\ Spec
    /\ WF_vars(SolveEmpty \/ SolveStart)
    /\ WF_vars(Poll)
    /\ WF_vars(\E i \in Indices : Tick(i))

\* ------------------------------------------------------- Retryer on its own
InitRetry ==
    /\ repositories \in {<<r>> : r \in Repos(0..(MaxRetry + 2))}
    /\ retryer \in 0..MaxRetry
    /\ futures = <<NewFuture>>
    /\ is_ready_future = <<FALSE>>
    /\ pending_count = 1
    /\ pc = "retrying"
    /\ poll_result = Pending
    /\ solve_result = None
    /\ polled = <<>>
    /\ finished = <<0>>

\* `retryer.retry(f).await`: one poll of the retry future by the awaiting task.
RetryAwait ==
    /\ pc = "retrying"
    /\ \E p \in {RetryPoll(repositories[1], 1, retryer, futures[1])} :
           /\ futures' = <<StripRes(p)>>
           /\ poll_result' = p.res
           /\ pc' = IF p.res = Pending THEN "retrying" ELSE "done"
           /\ finished' = IF p.res = Pending THEN finished ELSE <<finished[1] + 1>>
    /\ UNCHANGED <<repositories, retryer, is_ready_future, pending_count,
                   solve_result, polled>>

NextRetry ==
    \/ RetryAwait
    \/ \E i \in Indices : Tick(i)

SpecRetry == InitRetry /\ [][NextRetry]_vars

\* -------------------------------------------------- SolutionFuture on its own
\* A vector of retry futures, of any length, about to be handed to SolutionFuture::new.
InitNew ==
    /\ repositories \in SeqsUpTo(Repos(OkFrom), MaxRepos)
    /\ retryer = RetryCount
    /\ futures = [i \in 1..Len(repositories) |-> NewFuture]
    /\ is_ready_future = <<>>
    /\ pending_count = 0
    /\ pc = "constructing"
    /\ poll_result = Pending
    /\ solve_result = None
    /\ polled = <<>>
    /\ finished = [i \in 1..Len(repositories) |-> 0]

\* SolutionFuture::new(futures): a failed assertion is a panic, otherwise the
\* combinator is awaited.
Construct ==
    /\ pc = "constructing"
    /\ \E new \in {SolutionFutureNew(Len(futures))} :
           /\ pc' = IF new.panic THEN "panicked" ELSE "awaiting"
           /\ is_ready_future' = new.is_ready_future
           /\ pending_count' = new.pending_count
    /\ UNCHANGED <<repositories, retryer, futures, poll_result, solve_result, polled,
                   finished>>

NextNew ==
    \/ Construct
    \/ Poll
    \/ \E i \in Indices : Tick(i)

SpecNew == InitNew /\ [][NextNew]_vars

\* ----------------------------------------------------------------- claims
Range(q) == {q[x] : x \in 1..Len(q)}

\* The result operation i returned, for an operation whose future is done.
Output(i) == Download(repositories[i], i, futures[i].calls)

\* A source that succeeds within the attempts solve gives it.
Succeeds(repo) == repo.ok_from \in 1..(RetryCount + 1)

\* What a poll of operation i would return now.
WouldReturn(i) == RetryPoll(repositories[i], i, retryer, futures[i]).res

Racing == pc \in {"awaiting", "done", "panicked"}

\* C1: the race resolves with Err only when every operation has settled with a
\* failure, and an operation that finished with success decides the race with its
\* own result: a failed co-racer never preempts it.
C1_FailureNeverPreempts ==
    Racing =>
        /\ poll_result.tag = "Err" =>
               \A i \in Indices :
                   is_ready_future[i] /\ futures[i].done /\ Output(i).tag = "Err"
        /\ \A i \in Indices :
               (futures[i].done /\ Output(i).tag = "Ok") =>
                   (pc = "done" /\ poll_result = Output(i))

\* C1 witness: operation 1 won after operation 2 had failed.
C1_Witness ==
    /\ Len(repositories) = 2
    /\ pc = "done"
    /\ poll_result.tag = "Ok" /\ poll_result.value = 1
    /\ is_ready_future[2] /\ futures[2].done /\ Output(2).tag = "Err"
    /\ repositories[1].tick_times = 1

\* C2: when an activation finds several unsettled operations ready with success, the
\* race resolves with the result of the one with the smallest index.
C2_TieBreak ==
    [][Poll =>
        LET S == {i \in Indices : ~is_ready_future[i] /\ WouldReturn(i).tag = "Ok"}
        IN  Cardinality(S) >= 2 =>
                \E w \in S : /\ \A i \in S : w <= i
                             /\ poll_result' = WouldReturn(w)
                             /\ pc' = "done"]_vars

\* C2 witness: the race went to an operation while a later one, already started, was
\* ready with success too.
C2_Witness ==
    /\ pc = "done"
    /\ poll_result.tag = "Ok"
    /\ \E j \in Indices :
           /\ j > poll_result.value
           /\ ~is_ready_future[j]
           /\ futures[j].calls > 0
           /\ WouldReturn(j).tag = "Ok"

ExactlyOneSucceeds(w) ==
    /\ Len(repositories) = 3
    /\ Succeeds(repositories[w])
    /\ \A i \in 1..3 : i # w => ~Succeeds(repositories[i])

OneOfThree == \E w \in 1..3 : ExactlyOneSucceeds(w)

Winner == CHOOSE w \in 1..3 : ExactlyOneSucceeds(w)

\* C3: of three sources exactly one succeeds: wherever it stands and in whatever order
\* the three settle, the race, polled again after progress, resolves, and it resolves
\* with that source's value and not with a failure.
C3_OneOfThree ==
    OneOfThree ~>
        (/\ OneOfThree
         /\ pc = "done"
         /\ poll_result = Ok(Winner, repositories[Winner].ok_from)
         /\ solve_result = Some(Winner))

\* C3 witness: the last source won after the two before it had failed.
C3_Witness ==
    /\ ExactlyOneSucceeds(3)
    /\ pc = "done"
    /\ poll_result.tag = "Ok" /\ poll_result.value = 3
    /\ is_ready_future[1] /\ is_ready_future[2]
    /\ finished = <<1, 1, 1>>

AllFail == \A i \in Indices : ~Succeeds(repositories[i])

\* C4: when every operation fails, the race never resolves with Ok, and what it
\* resolves with is the error one of the operations returned.
C4_AllFail ==
    (Len(repositories) > 0 /\ AllFail) =>
        /\ pc # "panicked"
        /\ poll_result.tag \in {"Pending", "Err"}
        /\ pc = "done" =>
               /\ poll_result.tag = "Err"
               /\ \E i \in Indices : futures[i].done /\ poll_result = Output(i)

\* C4 witness: a race of three failing sources has resolved.
C4_Witness ==
    /\ Len(repositories) = 3
    /\ AllFail
    /\ pc = "done"
    /\ poll_result.tag = "Err"

\* C5: the activation in which an operation finishes with success returns that success
\* and advances no operation after it in scan order; once the race has resolved no
\* operation is advanced and the outcome does not change.
C5_ShortCircuit ==
    /\ [][Poll =>
            \A k \in Indices :
                (~futures[k].done /\ futures'[k].done
                    /\ Download(repositories[k], k, futures'[k].calls).tag = "Ok") =>
                    /\ pc' = "done"
                    /\ poll_result' = Ok(k, futures'[k].calls)
                    /\ \A j \in Indices :
                           j > k => (futures'[j] = futures[j] /\ j \notin Range(polled'))]_vars
    /\ [][pc = "done" =>
            UNCHANGED <<futures, is_ready_future, poll_result, solve_result>>]_vars

\* C5 witness: the race resolved with a success while a later operation, started and
\* unfinished, was left as it was.
C5_Witness ==
    /\ pc = "done"
    /\ poll_result.tag = "Ok"
    /\ \E j \in Indices :
           /\ j > poll_result.value
           /\ ~is_ready_future[j]
           /\ futures[j].calls > 0
           /\ ~futures[j].done
           /\ WouldReturn(j) = Pending

\* C6: an activation advances no operation whose flag says settled, and no operation
\* returns a finished result twice.
C6_SettledNeverPolled ==
    /\ [][Poll =>
            \A i \in Indices :
                is_ready_future[i] => (i \notin Range(polled') /\ futures'[i] = futures[i])]_vars
    /\ [](Racing => (pc # "panicked" /\ \A i \in Indices : finished[i] <= 1))

\* C6 witness: an activation advanced other operations and left out one that had
\* settled in an earlier activation.
C6_Witness ==
    /\ pc = "awaiting"
    /\ polled # <<>>
    /\ \E i \in Indices :
           /\ is_ready_future[i]
           /\ finished[i] = 1
           /\ i \notin Range(polled)

\* C7: with retry count N a factory that always fails is called N + 1 times, and the
\* retry returns the failure of call N + 1.
C7_AlwaysFailing ==
    (pc \in {"retrying", "done"} /\ repositories[1].ok_from = 0) =>
        /\ futures[1].calls <= retryer + 1
        /\ poll_result.tag \in {"Pending", "Err"}
        /\ pc = "done" =>
               /\ futures[1].calls = retryer + 1
               /\ poll_result = Err(1, retryer + 1)

\* C7 witness: a retry with a positive retry count over a failing factory returned.
C7_Witness ==
    /\ pc = "done"
    /\ repositories[1].ok_from = 0
    /\ retryer >= 1
    /\ poll_result.tag = "Err"

\* C8: with retry count N a factory that first succeeds on call k <= N + 1 is called
\* k times, and the retry returns the success of call k.
C8_SucceedsOnKth ==
    LET k == repositories[1].ok_from
    IN  (pc \in {"retrying", "done"} /\ k \in 1..(retryer + 1)) =>
            /\ futures[1].calls <= k
            /\ poll_result.tag \in {"Pending", "Ok"}
            /\ pc = "done" =>
                   /\ futures[1].calls = k
                   /\ poll_result = Ok(1, k)

\* C8 witness: a retry returned the success of a call after the first, with retries
\* left.
C8_Witness ==
    /\ pc = "done"
    /\ repositories[1].ok_from >= 2
    /\ repositories[1].ok_from <= retryer
    /\ poll_result.tag = "Ok"

\* C9: solve on an empty collection returns None in its first step: no retry future
\* is built, no download is called and no combinator is constructed.
C9_EmptyIsNone ==
    Len(repositories) = 0 =>
        /\ pc \in {"start", "done"}
        /\ retryer = 0
        /\ futures = <<>>
        /\ is_ready_future = <<>>
        /\ polled = <<>>
        /\ solve_result = None

\* C9 witness: solve has returned on the empty collection.
C9_Witness ==
    /\ Len(repositories) = 0
    /\ pc = "done"
    /\ solve_result = None

\* C10: on a non-empty collection solve returns Some(v) exactly when the race resolved
\* with Ok(v) and None when it resolved with Err: no error payload is handed on.
C10_SolveAdaptsOutcome ==
    Len(repositories) > 0 =>
        /\ solve_result.some <=> (pc = "done" /\ poll_result.tag = "Ok")
        /\ solve_result.some => solve_result.value = poll_result.value
        /\ ~solve_result.some => solve_result = None
        /\ pc = "done" => poll_result.tag \in {"Ok", "Err"}

\* C10 witness: solve returned None for a single source that failed every attempt.
C10_Witness ==
    /\ Len(repositories) = 1
    /\ pc = "done"
    /\ poll_result.tag = "Err"
    /\ solve_result = None

\* C11: SolutionFuture::new over no operation panics at once: no combinator comes to
\* be, nothing is polled and no outcome, Err or unresolved, is reported.
C11_EmptyNewPanics ==
    Len(futures) = 0 =>
        /\ pc \in {"constructing", "panicked"}
        /\ is_ready_future = <<>>
        /\ polled = <<>>
        /\ poll_result = Pending
        /\ solve_result = None

\* C11 witness: the construction over an empty vector has panicked.
C11_Witness ==
    /\ Len(futures) = 0
    /\ pc = "panicked"

\* C12 as stated: every activation advances every operation marked not-yet-settled.
\* The activation that returns a success leaves the operations after it alone.
C12_Original ==
    [][Poll =>
        \A i \in Indices : ~is_ready_future[i] => i \in Range(polled')]_vars

\* C12, amended: every activation advances every operation marked not-yet-settled,
\* those left Pending by an earlier activation included, except the operations that
\* come after the one whose success the activation returns.
C12_AdvancesAllUnsettled ==
    [][Poll =>
        \A i \in Indices :
            ~is_ready_future[i] =>
                \/ i \in Range(polled')
                \/ /\ poll_result'.tag = "Ok"
                   /\ i > poll_result'.value]_vars

\* C12 witness: an unresolved activation advanced two operations, one of them for at
\* least the second time (its first attempt was left Pending and has failed since).
C12_Witness ==
    /\ pc = "awaiting"
    /\ Len(polled) >= 2
    /\ \E i \in Range(polled) :
           /\ repositories[i].tick_times = 1
           /\ futures[i].calls >= 2
           /\ ~futures[i].done

Unsettled == {i \in Indices : ~is_ready_future[i]}

\* The fields an activation starts from.
ScanStart ==
    [futures |-> futures, is_ready |-> is_ready_future, count |-> pending_count,
     last_error |-> None, polled |-> <<>>, finished |-> finished,
     ret |-> Pending, stop |-> FALSE]

\* C13: pending_count is the number of operations whose flag is false and is never
\* negative; it starts at N; one pass of the loop body takes exactly 1 from it when it
\* sets the flag of its operation and leaves it alone otherwise; no activation raises
\* it or clears a flag.
C13_PendingCount ==
    /\ [](pc \in {"awaiting", "done"} =>
            (pending_count = Cardinality(Unsettled) /\ pending_count >= 0))
    /\ [][SolveStart =>
            /\ pending_count' = Len(repositories)
            /\ \A i \in Indices : ~is_ready_future'[i]]_vars
    /\ [][Poll =>
            /\ pending_count' <= pending_count
            /\ \A i \in Indices : is_ready_future[i] => is_ready_future'[i]
            /\ \A j \in Unsettled :
                   \E b \in {ScanBody(j, ScanStart, RetryPoll(repositories[j], j, retryer,
                                                               futures[j]))} :
                       /\ b.count = pending_count - (IF b.is_ready[j] THEN 1 ELSE 0)
                       /\ \A i \in Indices : i # j => b.is_ready[i] = is_ready_future[i]]_vars

\* C13 witness: two of three operations have settled and the race is unresolved.
C13_Witness ==
    /\ Len(repositories) = 3
    /\ pc = "awaiting"
    /\ pending_count = 1
    /\ Cardinality(Unsettled) = 1

\* The unsettled operations whose poll would return a success now.
ReadyOk == {j \in Unsettled : WouldReturn(j).tag = "Ok"}

\* C14: an operation that finishes with failure does not end the scan: the unsettled
\* operations after it are advanced in the same activation, up to the first that is
\* ready with success, and the activation then returns that success.
C14_FailureContinuesScan ==
    [][Poll =>
        \A i \in Unsettled :
            (WouldReturn(i).tag = "Err" /\ \A k \in ReadyOk : i < k) =>
                /\ is_ready_future'[i]
                /\ \A j \in Unsettled :
                       (j > i /\ \A k \in ReadyOk : j <= k) => j \in Range(polled')
                /\ ReadyOk # {} =>
                       /\ pc' = "done"
                       /\ poll_result'.tag = "Ok"
                       /\ poll_result'.value \in ReadyOk
                       /\ \A k \in ReadyOk : poll_result'.value <= k]_vars

\* C14 witness: the activation that resolved the race with a success had seen an
\* earlier operation in scan order finish with failure.
C14_Witness ==
    /\ pc = "done"
    /\ poll_result.tag = "Ok"
    /\ \E i \in Range(polled) :
           /\ i < poll_result.value
           /\ is_ready_future[i]
           /\ futures[i].done
           /\ Output(i).tag = "Err"

\* C15: a race that resolves with failure returns the error of the operation with the
\* largest index among those that settled in the resolving activation; errors seen
\* earlier in that pass or in earlier activations are not returned.
C15_LastErrorWins ==
    [][(Poll /\ poll_result'.tag = "Err") =>
        LET F == {i \in Unsettled : is_ready_future'[i]}
        IN  \E m \in F :
                /\ \A i \in F : i <= m
                /\ poll_result' = Download(repositories[m], m, futures'[m].calls)]_vars

\* C15 witness: the race resolved with failure in an activation that settled two or
\* more operations, while an operation of larger index had failed in an earlier one.
C15_Witness ==
    /\ pc = "done"
    /\ poll_result.tag = "Err"
    /\ Len(polled) >= 2
    /\ \E i \in Indices : i > poll_result.value /\ i \notin Range(polled)

\* C16: with every operation finishing in the end and the combinator polled again
\* after progress, the race resolves; before that, an activation that sees no success
\* and leaves pending_count above 0 returns Pending.
C16_RaceResolves ==
    /\ (Len(repositories) > 0) ~> (pc = "done")
    /\ [][(/\ Poll
           /\ pending_count' > 0
           /\ \A i \in Unsettled :
                  is_ready_future'[i] =>
                      Download(repositories[i], i, futures'[i].calls).tag = "Err") =>
            (poll_result' = Pending /\ pc' = "awaiting")]_vars

\* C16 witness: an activation saw an operation fail and, with others still pending,
\* reported unresolved.
C16_Witness ==
    /\ pc = "awaiting"
    /\ poll_result = Pending
    /\ pending_count > 0
    /\ \E i \in Range(polled) : is_ready_future[i] /\ Output(i).tag = "Err"

\* C17: an activation whose scan ends without returning a success and with
\* pending_count at 0 has set its own last_error and returns that failure; the race is
\* never left unresolved with every operation settled.
C17_LastErrorIsSet ==
    /\ [](pc = "awaiting" => pending_count > 0)
    /\ [][Poll =>
            \E a \in {Activation} :
                (a.count = 0 /\ ~a.stop) =>
                    /\ a.last_error.some
                    /\ a.last_error.value.tag = "Err"
                    /\ poll_result' = a.last_error.value
                    /\ pc' = "done"]_vars

\* C17 witness: the activation that resolved a race of several operations with failure
\* settled only the last pending one; the others had failed in earlier activations.
C17_Witness ==
    /\ Len(repositories) >= 2
    /\ pc = "done"
    /\ pending_count = 0
    /\ poll_result.tag = "Err"
    /\ Len(polled) = 1

\* C18: in solve, with the policy of 3 extra attempts, a source's next download starts
\* only when its previous one has finished with a failure, no source is downloaded more
\* than 4 times, and the race gives None only when every source has made exactly 4
\* attempts that all failed.
C18_FourSequentialAttempts ==
    /\ [](Racing => \A i \in Indices : futures[i].calls <= 4)
    /\ []((Len(repositories) > 0 /\ pc = "done" /\ solve_result = None) =>
             \A i \in Indices :
                 /\ futures[i].done
                 /\ futures[i].calls = 4
                 /\ \A c \in 1..4 : Download(repositories[i], i, c).tag = "Err")
    /\ [][\A i \in Indices :
              (i \in DOMAIN futures /\ futures[i].calls >= 1
                  /\ futures'[i].calls > futures[i].calls) =>
                  /\ futures[i].remaining = 0
                  /\ ~futures[i].done
                  /\ \A c \in futures[i].calls..(futures'[i].calls - 1) :
                         Download(repositories[i], i, c).tag = "Err"]_vars

\* C18 witness: a race of several sources, one of them with downloads that take a
\* tick, has given None after 4 failed attempts of each.
C18_Witness ==
    /\ Len(repositories) >= 2
    /\ pc = "done"
    /\ solve_result = None
    /\ \A i \in Indices : futures[i].done /\ futures[i].calls = 4
    /\ \E i \in Indices : repositories[i].tick_times = 1

====
